---- MODULE Spec2Model ----
(***************************************************************************)
(* Model of internal/component/otelcol/connector/spanmetrics/spanmetrics.go *)
(* (package spanmetrics of grafana/alloy): the Arguments of the            *)
(* otelcol.connector.spanmetrics component, their defaulting, validation   *)
(* and conversion into the spanmetricsconnector configuration, and the     *)
(* aggregation temporality codec.                                          *)
(*                                                                         *)
(* Go strings that the code inspects or formats (the aggregation           *)
(* temporality, error messages) are sequences of one-character strings, so *)
(* that formatting with %v and "the message contains s" are computed.      *)
(* Strings the code only stores and copies (dimension names, excluded      *)
(* dimensions, the namespace) are TLA+ strings.                            *)
(***************************************************************************)
EXTENDS Integers, Sequences, FiniteSets, TLC

(***************************************************************************)
(* Bounds of the model.                                                    *)
(***************************************************************************)
\* Longest Dimensions list drawn by Init.
MaxDims == 2
\* Longest ExcludeDimensions list (drawn by Init or grown by append).
MaxExclude == 2
\* Longest arbitrary string handed to the temporality codec.
MaxStrLen == 3
\* Backing arrays of []string that can be live at once.
NumArrays == 3

(***************************************************************************)
(* Strings.                                                                *)
(***************************************************************************)
\* Whether sub occurs in s as a contiguous substring (strings.Contains).
Contains(s, sub) ==
    \E i \in 0..(Len(s) - Len(sub)) : SubSeq(s, i + 1, i + Len(sub)) = sub

Digits == <<"0", "1", "2", "3", "4", "5", "6", "7", "8", "9">>

RECURSIVE UItoa(_)
\* Decimal digits of n >= 0.
UItoa(n) ==
    IF n < 10 THEN <<Digits[n + 1]>>
    ELSE UItoa(n \div 10) \o <<Digits[(n % 10) + 1]>>

\* fmt's %v of an int: decimal, with a leading minus sign when negative.
FormatInt(n) == IF n < 0 THEN <<"-">> \o UItoa(0 - n) ELSE UItoa(n)

\* All sequences over S of length at most n.
SeqsUpTo(S, n) == UNION {[1..k -> S] : k \in 0..n}

(***************************************************************************)
(* Constants of the package.                                               *)
(***************************************************************************)
AggregationTemporalityCumulative ==
    <<"C", "U", "M", "U", "L", "A", "T", "I", "V", "E">>

AggregationTemporalityDelta == <<"D", "E", "L", "T", "A">>

OTelCumulative ==
    <<"A", "G", "G", "R", "E", "G", "A", "T", "I", "O", "N", "_",
      "T", "E", "M", "P", "O", "R", "A", "L", "I", "T", "Y", "_",
      "C", "U", "M", "U", "L", "A", "T", "I", "V", "E">>

OTelDelta ==
    <<"A", "G", "G", "R", "E", "G", "A", "T", "I", "O", "N", "_",
      "T", "E", "M", "P", "O", "R", "A", "L", "I", "T", "Y", "_",
      "D", "E", "L", "T", "A">>

\* time.Second, in the model's unit of time.Duration (one millisecond).
Second == 1000

(***************************************************************************)
(* Errors: nil, or an error value carrying its message (fmt.Errorf).       *)
(***************************************************************************)
NilError == [isNil |-> TRUE]

Errorf(msg) == [isNil |-> FALSE, msg |-> msg]

MsgInvalidTemporality ==
    <<"i", "n", "v", "a", "l", "i", "d", " ", "a", "g", "g", "r", "e", "g",
      "a", "t", "i", "o", "n", "_", "t", "e", "m", "p", "o", "r", "a", "l",
      "i", "t", "y", ":", " ">>

MsgCacheSizeHead ==
    <<"i", "n", "v", "a", "l", "i", "d", " ", "c", "a", "c", "h", "e", " ",
      "s", "i", "z", "e", ":", " ">>

MsgCacheSizeTail ==
    <<",", " ", "t", "h", "e", " ", "m", "a", "x", "i", "m", "u", "m", " ",
      "n", "u", "m", "b", "e", "r", " ", "o", "f", " ", "t", "h", "e", " ",
      "i", "t", "e", "m", "s", " ", "i", "n", " ", "t", "h", "e", " ", "c",
      "a", "c", "h", "e", " ", "s", "h", "o", "u", "l", "d", " ", "b", "e",
      " ", "p", "o", "s", "i", "t", "i", "v", "e">>

MsgFlushInterval ==
    <<"m", "e", "t", "r", "i", "c", "s", "_", "f", "l", "u", "s", "h", "_",
      "i", "n", "t", "e", "r", "v", "a", "l", " ", "m", "u", "s", "t", " ",
      "b", "e", " ", "g", "r", "e", "a", "t", "e", "r", " ", "t", "h", "a",
      "n", " ", "0">>

(***************************************************************************)
(* Slices of strings.  A slice is a header [arr, len, cap] into a backing  *)
(* array of the heap; arr = 0 is the nil slice.  heap[a] is the content of *)
(* array a, of length cap, or <<>> when a is not allocated.                *)
(***************************************************************************)
NilSlice == [arr |-> 0, len |-> 0, cap |-> 0]

Arrays == 1..NumArrays

\* The elements a slice shows: s[0:len(s)].
View(h, s) == IF s.arr = 0 THEN <<>> ELSE SubSeq(h[s.arr], 1, s.len)

\* A backing array not referenced by any live slice.
FreshArray(live) == CHOOSE a \in Arrays : a \notin live /\ \A b \in Arrays : (b \notin live) => a <= b

\* The heap with the arrays no live slice references reclaimed.
Collect(h, live) == [a \in Arrays |-> IF a \in live THEN h[a] ELSE <<>>]

(***************************************************************************)
(* The aggregation temporality codec.                                      *)
(***************************************************************************)
\* convertAggregationTemporality: (string, error).
convertAggregationTemporality(temporality) ==
    IF temporality = AggregationTemporalityCumulative
    THEN [val |-> OTelCumulative, err |-> NilError]
    ELSE IF temporality = AggregationTemporalityDelta
    THEN [val |-> OTelDelta, err |-> NilError]
    ELSE [val |-> <<>>,
          err |-> Errorf(MsgInvalidTemporality \o temporality)]

\* Mutant: the two cases of the reverse mapping swapped.
FromOTelAggregationTemporalitySwapped(temporality) ==
    IF temporality = OTelDelta THEN AggregationTemporalityCumulative
    ELSE IF temporality = OTelCumulative THEN AggregationTemporalityDelta
    ELSE <<>>

\* Mutant: the reverse mapping hands an unrecognized string back.
FromOTelAggregationTemporalityEcho(temporality) ==
    IF temporality = OTelDelta THEN AggregationTemporalityDelta
    ELSE IF temporality = OTelCumulative THEN AggregationTemporalityCumulative
    ELSE temporality

\* FromOTelAggregationTemporality: string, "" for anything unrecognized.
FromOTelAggregationTemporality(temporality) ==
    IF temporality = OTelDelta THEN AggregationTemporalityDelta
    ELSE IF temporality = OTelCumulative THEN AggregationTemporalityCumulative
    ELSE <<>>

(***************************************************************************)
(* Sub-configurations.  Dimension, HistogramConfig and ExemplarsConfig are *)
(* declared in another file of the package; spanmetrics.go only calls      *)
(* their Convert methods.  They are modelled from the specification: a     *)
(* dimension is a name with an optional default, the histogram's own       *)
(* conversion either succeeds or fails with its own error, the exemplars'  *)
(* conversion cannot fail.                                                 *)
(***************************************************************************)
\* Dimension{Name, Default *string}: Default is <<>> (nil) or <<v>>.
DimensionValues ==
    { [Name |-> "http.method", Default |-> <<>>],
      [Name |-> "http.status_code", Default |-> <<"200">>] }

\* Dimension.Convert: the engine's dimension with the same name and default.
DimensionConvert(d) == [Name |-> d.Name, Default |-> d.Default]

ZeroHistogram == [Strategy |-> "", Rejected |-> FALSE]

\* Rejected stands for whatever makes the histogram's own conversion fail.
HistogramValues ==
    { ZeroHistogram,
      [Strategy |-> "explicit", Rejected |-> FALSE],
      [Strategy |-> "exponential", Rejected |-> TRUE] }

MsgHistogram ==
    <<"i", "n", "v", "a", "l", "i", "d", " ", "h", "i", "s", "t", "o", "g",
      "r", "a", "m">>

\* HistogramConfig.Convert: (*HistogramConfig, error).
HistogramConvert(hc) ==
    IF hc.Rejected
    THEN [val |-> [isNil |-> TRUE], err |-> Errorf(MsgHistogram)]
    ELSE [val |-> [isNil |-> FALSE, Strategy |-> hc.Strategy],
          err |-> NilError]

ZeroExemplars == [Enabled |-> FALSE]

ExemplarsValues == { ZeroExemplars, [Enabled |-> TRUE] }

\* ExemplarsConfig.Convert: *ExemplarsConfig, never nil.
ExemplarsConvert(ec) == [Enabled |-> ec.Enabled]

(***************************************************************************)
(* Arguments.                                                              *)
(***************************************************************************)
\* Arguments{}: every field at its zero value.  Output is 0 (nil) or a
\* handle to the consumer arguments.
ZeroArguments ==
    [ Dimensions             |-> <<>>,
      ExcludeDimensions      |-> NilSlice,
      DimensionsCacheSize    |-> 0,
      AggregationTemporality |-> <<>>,
      Histogram              |-> ZeroHistogram,
      MetricsFlushInterval   |-> 0,
      Namespace              |-> "",
      Exemplars              |-> ZeroExemplars,
      Output                 |-> 0 ]

\* Mutant: the default flush interval left out of the literal.
DefaultArgumentsNoInterval ==
    [ ZeroArguments EXCEPT
        !.DimensionsCacheSize    = 1000,
        !.AggregationTemporality = AggregationTemporalityCumulative ]

\* var DefaultArguments: the fields the literal leaves out are zero.
DefaultArguments ==
    [ ZeroArguments EXCEPT
        !.DimensionsCacheSize    = 1000,
        !.AggregationTemporality = AggregationTemporalityCumulative,
        !.MetricsFlushInterval   = 15 * Second ]

\* Mutant: defaults fill in only the fields that are still zero.
SetToDefaultFill(a) ==
    [ a EXCEPT
        !.DimensionsCacheSize =
            IF @ = 0 THEN DefaultArguments.DimensionsCacheSize ELSE @,
        !.AggregationTemporality =
            IF @ = <<>> THEN DefaultArguments.AggregationTemporality ELSE @,
        !.MetricsFlushInterval =
            IF @ = 0 THEN DefaultArguments.MetricsFlushInterval ELSE @ ]

\* (*Arguments).SetToDefault: *args = DefaultArguments.
SetToDefault(a) == DefaultArguments

\* Mutant: the cache size check lets 0 through (< for <=).
ValidateStrictCache(a) ==
    IF a.DimensionsCacheSize < 0
    THEN Errorf(MsgCacheSizeHead \o FormatInt(a.DimensionsCacheSize)
                \o MsgCacheSizeTail)
    ELSE IF a.MetricsFlushInterval <= 0
    THEN Errorf(MsgFlushInterval)
    ELSE IF a.AggregationTemporality \in
            {AggregationTemporalityCumulative, AggregationTemporalityDelta}
    THEN NilError
    ELSE Errorf(MsgInvalidTemporality \o a.AggregationTemporality)

\* Mutant: the temporality message leaves the value out.
ValidateFixedTemporalityMsg(a) ==
    IF a.DimensionsCacheSize <= 0
    THEN Errorf(MsgCacheSizeHead \o FormatInt(a.DimensionsCacheSize)
                \o MsgCacheSizeTail)
    ELSE IF a.MetricsFlushInterval <= 0
    THEN Errorf(MsgFlushInterval)
    ELSE IF a.AggregationTemporality \in
            {AggregationTemporalityCumulative, AggregationTemporalityDelta}
    THEN NilError
    ELSE Errorf(MsgInvalidTemporality)

\* Mutant: the cache size message leaves the value out.
ValidateFixedCacheMsg(a) ==
    IF a.DimensionsCacheSize <= 0
    THEN Errorf(MsgCacheSizeHead \o MsgCacheSizeTail)
    ELSE IF a.MetricsFlushInterval <= 0
    THEN Errorf(MsgFlushInterval)
    ELSE IF a.AggregationTemporality \in
            {AggregationTemporalityCumulative, AggregationTemporalityDelta}
    THEN NilError
    ELSE Errorf(MsgInvalidTemporality \o a.AggregationTemporality)

\* (*Arguments).Validate: the first failing check's error, or nil.
Validate(a) ==
    IF a.DimensionsCacheSize <= 0
    THEN Errorf(MsgCacheSizeHead \o FormatInt(a.DimensionsCacheSize)
                \o MsgCacheSizeTail)
    ELSE IF a.MetricsFlushInterval <= 0
    THEN Errorf(MsgFlushInterval)
    ELSE IF a.AggregationTemporality \in
            {AggregationTemporalityCumulative, AggregationTemporalityDelta}
    THEN NilError
    ELSE Errorf(MsgInvalidTemporality \o a.AggregationTemporality)

(***************************************************************************)
(* Convert.                                                                *)
(***************************************************************************)
NilConfig == [isNil |-> TRUE]

RECURSIVE ConvertDimensionsReversed(_)
\* Mutant: each converted dimension is put in front of the list.
ConvertDimensionsReversed(ds) ==
    IF ds = <<>> THEN <<>>
    ELSE ConvertDimensionsReversed(Tail(ds)) \o <<DimensionConvert(Head(ds))>>

RECURSIVE ConvertDimensions(_)
\* The loop over args.Dimensions: append(dimensions, d.Convert()) for each.
ConvertDimensions(ds) ==
    IF ds = <<>> THEN <<>>
    ELSE <<DimensionConvert(Head(ds))>> \o ConvertDimensions(Tail(ds))

\* Mutant: the list is handed over as it is, sharing its backing array.
CopyExcludeAlias(h, s, live) == [heap |-> h, slice |-> s]

\* append([]string(nil), s...): nil for an empty s, else a new backing
\* array of len(s) elements holding the elements of s.
CopyExclude(h, s, live) ==
    IF s.len = 0 THEN [heap |-> h, slice |-> NilSlice]
    ELSE LET a == FreshArray(live)
         IN  [heap  |-> [h EXCEPT ![a] = View(h, s)],
              slice |-> [arr |-> a, len |-> s.len, cap |-> s.len]]

\* Mutant: the temporality is converted without looking at the error.
ConvertUnchecked(a, h, live) ==
    LET histogram == HistogramConvert(a.Histogram)
        temporality == convertAggregationTemporality(a.AggregationTemporality)
        exclude == CopyExclude(h, a.ExcludeDimensions, live)
    IN  IF histogram.err # NilError
        THEN [cfg |-> NilConfig, err |-> histogram.err, heap |-> h]
        ELSE [cfg |-> [isNil                  |-> FALSE,
                       Dimensions             |-> ConvertDimensions(a.Dimensions),
                       ExcludeDimensions      |-> exclude.slice,
                       DimensionsCacheSize    |-> a.DimensionsCacheSize,
                       AggregationTemporality |-> temporality.val,
                       Histogram              |-> histogram.val,
                       MetricsFlushInterval   |-> a.MetricsFlushInterval,
                       Namespace              |-> a.Namespace,
                       Exemplars              |-> ExemplarsConvert(a.Exemplars)],
              err |-> NilError,
              heap |-> exclude.heap]

\* Arguments.Convert: (config, error) and the heap after the call.  live is
\* the set of backing arrays the caller still references.
Convert(a, h, live) ==
    LET dimensions == ConvertDimensions(a.Dimensions)
        histogram == HistogramConvert(a.Histogram)
        temporality == convertAggregationTemporality(a.AggregationTemporality)
        exclude == CopyExclude(h, a.ExcludeDimensions, live)
    IN  IF histogram.err # NilError
        THEN [cfg |-> NilConfig, err |-> histogram.err, heap |-> h]
        ELSE IF temporality.err # NilError
        THEN [cfg |-> NilConfig, err |-> temporality.err, heap |-> h]
        ELSE [cfg |-> [isNil                  |-> FALSE,
                       Dimensions             |-> dimensions,
                       ExcludeDimensions      |-> exclude.slice,
                       DimensionsCacheSize    |-> a.DimensionsCacheSize,
                       AggregationTemporality |-> temporality.val,
                       Histogram              |-> histogram.val,
                       MetricsFlushInterval   |-> a.MetricsFlushInterval,
                       Namespace              |-> a.Namespace,
                       Exemplars              |-> ExemplarsConvert(a.Exemplars)],
              err |-> NilError,
              heap |-> exclude.heap]

(***************************************************************************)
(* Operations on a slice its holder can make (the Go language).            *)
(***************************************************************************)
\* s[i-1] = x: a write into the backing array.
SliceSet(h, s, i, x) == [h EXCEPT ![s.arr][i] = x]

\* append(s, x): in place when there is spare capacity, else into a new
\* backing array of grown capacity holding the old elements.
SliceAppend(h, s, x, live) ==
    IF s.len < s.cap
    THEN [heap  |-> [h EXCEPT ![s.arr][s.len + 1] = x],
          slice |-> [s EXCEPT !.len = s.len + 1]]
    ELSE LET a == FreshArray(live)
             newcap == IF s.cap = 0 THEN 1 ELSE 2 * s.cap
         IN  [heap  |-> [h EXCEPT ![a] =
                            View(h, s) \o <<x>>
                            \o [k \in 1..(newcap - s.len - 1) |-> ""]],
              slice |-> [arr |-> a, len |-> s.len + 1, cap |-> newcap]]

(***************************************************************************)
(* State.                                                                  *)
(***************************************************************************)
VARIABLES
    args,   \* the Arguments value of the component
    heap,   \* backing arrays of the []string slices that are live
    cfg,    \* the config the last Convert returned (NilConfig: nil)
    err,    \* the error the last Validate or Convert returned
    op,     \* the operation that ran last
    prev,   \* the operation that ran before it
    codec   \* the last call of the temporality codec

vars == <<args, heap, cfg, err, op, prev, codec>>

\* The backing arrays the component's values reference.
Live(a, c) ==
    ({a.ExcludeDimensions.arr}
       \cup (IF c = NilConfig THEN {} ELSE {c.ExcludeDimensions.arr}))
    \ {0}

ExcludeNames == {"a", "b"}

NamespaceValues == {"", "traces"}

\* Values of aggregation_temporality a configuration can carry.
TemporalityValues ==
    { AggregationTemporalityCumulative,
      AggregationTemporalityDelta,
      <<"d", "e", "l", "t", "a">>,
      <<>>,
      OTelDelta }

CodecIdle == [fn |-> "", in |-> <<>>, out |-> <<>>, err |-> NilError, src |-> <<>>]

\* A populated ExcludeDimensions: the slice over its own backing array 1,
\* holding content with spare unused elements behind it.
ExcludeSlice(content, spare) ==
    IF Len(content) + spare = 0 THEN NilSlice
    ELSE [arr |-> 1, len |-> Len(content), cap |-> Len(content) + spare]

ExcludeHeap(content, spare) ==
    [a \in Arrays |->
        IF a = 1 /\ Len(content) + spare > 0
        THEN content \o [k \in 1..spare |-> ""]
        ELSE <<>>]

InitResults ==
    /\ cfg = NilConfig
    /\ err = NilError
    /\ op = "init"
    /\ prev = "init"
    /\ codec = CodecIdle

\* Any Arguments the configuration document can populate; the exclusion
\* list is absent or one fixed list.
Init ==
    /\ \E content \in {<<>>, <<"a", "b">>},
          r \in [ Dimensions             : SeqsUpTo(DimensionValues, MaxDims),
                  ExcludeDimensions      : {NilSlice},
                  DimensionsCacheSize    : {0 - 1, 0, 1, 1000},
                  AggregationTemporality : TemporalityValues,
                  Histogram              : HistogramValues,
                  MetricsFlushInterval   : {0 - 1, 0, 1, 15 * Second},
                  Namespace              : NamespaceValues,
                  Exemplars              : ExemplarsValues,
                  Output                 : {0, 1} ] :
         /\ args = [r EXCEPT !.ExcludeDimensions = ExcludeSlice(content, 0)]
         /\ heap = ExcludeHeap(content, 0)
    /\ InitResults

\* Defaulted Arguments on which the exclusion list (any elements, with or
\* without spare capacity), the temporality and the histogram were set.
InitExcludeLists ==
    /\ \E t \in {AggregationTemporalityCumulative, <<"d", "e", "l", "t", "a">>},
          hc \in HistogramValues \ {ZeroHistogram},
          content \in SeqsUpTo(ExcludeNames, MaxExclude),
          spare \in 0..1 :
         /\ args = [DefaultArguments EXCEPT
                      !.AggregationTemporality = t,
                      !.Histogram = hc,
                      !.ExcludeDimensions = ExcludeSlice(content, spare)]
         /\ heap = ExcludeHeap(content, spare)
    /\ InitResults

\* Only the codec is exercised.
InitCodec ==
    /\ args = ZeroArguments
    /\ heap = [a \in Arrays |-> <<>>]
    /\ InitResults

(***************************************************************************)
(* Actions.                                                                *)
(***************************************************************************)
CallSetToDefault ==
    /\ args' = SetToDefault(args)
    /\ heap' = Collect(heap, Live(args', cfg))
    /\ op' = "SetToDefault"
    /\ prev' = op
    /\ UNCHANGED <<cfg, err, codec>>

CallValidate ==
    /\ err' = Validate(args)
    /\ op' = "Validate"
    /\ prev' = op
    /\ UNCHANGED <<args, heap, cfg, codec>>

CallConvert ==
    LET r == Convert(args, heap, Live(args, NilConfig))
    IN  /\ cfg' = r.cfg
        /\ err' = r.err
        /\ heap' = Collect(r.heap, Live(args, r.cfg))
        /\ op' = "Convert"
        /\ prev' = op
        /\ UNCHANGED <<args, codec>>

\* The holder of the Arguments overwrites an element of exclude_dimensions.
ArgsOverwrite ==
    \E i \in 1..args.ExcludeDimensions.len, x \in ExcludeNames :
        /\ heap' = SliceSet(heap, args.ExcludeDimensions, i, x)
        /\ op' = "ArgsOverwrite"
        /\ prev' = op
        /\ UNCHANGED <<args, cfg, err, codec>>

\* The holder of the Arguments appends to exclude_dimensions.
ArgsAppend ==
    \E x \in ExcludeNames :
        /\ args.ExcludeDimensions.len < MaxExclude
        /\ LET r == SliceAppend(heap, args.ExcludeDimensions, x, Live(args, cfg))
           IN  /\ args' = [args EXCEPT !.ExcludeDimensions = r.slice]
               /\ heap' = Collect(r.heap, Live(args', cfg))
        /\ op' = "ArgsAppend"
        /\ prev' = op
        /\ UNCHANGED <<cfg, err, codec>>

\* The holder of the returned config overwrites an element of its list.
CfgOverwrite ==
    /\ cfg # NilConfig
    /\ \E i \in 1..cfg.ExcludeDimensions.len, x \in ExcludeNames :
        /\ heap' = SliceSet(heap, cfg.ExcludeDimensions, i, x)
        /\ op' = "CfgOverwrite"
        /\ prev' = op
        /\ UNCHANGED <<args, cfg, err, codec>>

\* The holder of the returned config appends to its list.
CfgAppend ==
    /\ cfg # NilConfig
    /\ \E x \in ExcludeNames :
        /\ cfg.ExcludeDimensions.len < MaxExclude
        /\ LET r == SliceAppend(heap, cfg.ExcludeDimensions, x, Live(args, cfg))
           IN  /\ cfg' = [cfg EXCEPT !.ExcludeDimensions = r.slice]
               /\ heap' = Collect(r.heap, Live(args, cfg'))
        /\ op' = "CfgAppend"
        /\ prev' = op
        /\ UNCHANGED <<args, err, codec>>

\* Strings handed to the codec: the four it knows, near misses, and every
\* string over a small alphabet up to MaxStrLen.
CodecInputs ==
    { AggregationTemporalityCumulative, AggregationTemporalityDelta,
      OTelCumulative, OTelDelta,
      <<"d", "e", "l", "t", "a">>,
      <<"D", "E", "L", "T", "A", " ">> }
    \cup SeqsUpTo({"D", "E", "L", "T", "A"}, MaxStrLen)

CallConvertAggregationTemporality ==
    \E s \in CodecInputs :
        LET r == convertAggregationTemporality(s)
        IN  /\ codec' = [fn |-> "convertAggregationTemporality", in |-> s,
                         out |-> r.val, err |-> r.err, src |-> <<>>]
            /\ UNCHANGED <<args, heap, cfg, err, op, prev>>

\* FromOTelAggregationTemporality on any string.
CallFromOTel ==
    \E s \in CodecInputs :
        /\ codec' = [fn |-> "FromOTelAggregationTemporality", in |-> s,
                     out |-> FromOTelAggregationTemporality(s),
                     err |-> NilError, src |-> <<>>]
        /\ UNCHANGED <<args, heap, cfg, err, op, prev>>

\* FromOTelAggregationTemporality on what a successful
\* convertAggregationTemporality just returned; src keeps the original.
CallFromOTelOfConverted ==
    /\ codec.fn = "convertAggregationTemporality"
    /\ codec.err = NilError
    /\ codec' = [fn |-> "FromOTelAggregationTemporality", in |-> codec.out,
                 out |-> FromOTelAggregationTemporality(codec.out),
                 err |-> NilError, src |-> codec.in]
    /\ UNCHANGED <<args, heap, cfg, err, op, prev>>

(***************************************************************************)
(* Specifications.                                                         *)
(***************************************************************************)
Next == CallSetToDefault \/ CallValidate \/ CallConvert

Spec == Init /\ [][Next]_vars

NextExclude ==
    \/ CallSetToDefault
    \/ CallValidate
    \/ CallConvert
    \/ ArgsOverwrite
    \/ ArgsAppend
    \/ CfgOverwrite
    \/ CfgAppend

SpecExclude == InitExcludeLists /\ [][NextExclude]_vars

NextCodec ==
    \/ CallConvertAggregationTemporality
    \/ CallFromOTel
    \/ CallFromOTelOfConverted

SpecCodec == InitCodec /\ [][NextCodec]_vars

(***************************************************************************)
(* Properties.  The strings they name are written out, not taken from the  *)
(* definitions above.                                                      *)
(***************************************************************************)
StrCUMULATIVE == <<"C", "U", "M", "U", "L", "A", "T", "I", "V", "E">>

StrDELTA == <<"D", "E", "L", "T", "A">>

StrLowerDelta == <<"d", "e", "l", "t", "a">>

StrEngineCumulative ==
    <<"A", "G", "G", "R", "E", "G", "A", "T", "I", "O", "N", "_",
      "T", "E", "M", "P", "O", "R", "A", "L", "I", "T", "Y", "_",
      "C", "U", "M", "U", "L", "A", "T", "I", "V", "E">>

StrEngineDelta ==
    <<"A", "G", "G", "R", "E", "G", "A", "T", "I", "O", "N", "_",
      "T", "E", "M", "P", "O", "R", "A", "L", "I", "T", "Y", "_",
      "D", "E", "L", "T", "A">>

\* How each Validate failure's message names its field.
StrCacheSize == <<"c", "a", "c", "h", "e", " ", "s", "i", "z", "e">>

StrFlushInterval ==
    <<"m", "e", "t", "r", "i", "c", "s", "_", "f", "l", "u", "s", "h", "_",
      "i", "n", "t", "e", "r", "v", "a", "l">>

StrAggregationTemporality ==
    <<"a", "g", "g", "r", "e", "g", "a", "t", "i", "o", "n", "_", "t", "e",
      "m", "p", "o", "r", "a", "l", "i", "t", "y">>

StrFlushMessage ==
    StrFlushInterval \o
    <<" ", "m", "u", "s", "t", " ", "b", "e", " ", "g", "r", "e", "a", "t",
      "e", "r", " ", "t", "h", "a", "n", " ", "0">>

\* The baseline SetToDefault is documented to produce, field by field.
Baseline ==
    [ Dimensions             |-> <<>>,
      ExcludeDimensions      |-> [arr |-> 0, len |-> 0, cap |-> 0],
      DimensionsCacheSize    |-> 1000,
      AggregationTemporality |-> StrCUMULATIVE,
      Histogram              |-> [Strategy |-> "", Rejected |-> FALSE],
      MetricsFlushInterval   |-> 15 * Second,
      Namespace              |-> "",
      Exemplars              |-> [Enabled |-> FALSE],
      Output                 |-> 0 ]

\* C1: Validate succeeds if and only if dimensions_cache_size > 0 and
\* metrics_flush_interval > 0 and aggregation_temporality is exactly
\* "CUMULATIVE" or "DELTA", whatever the other fields hold.
C1_ValidateIff ==
    op = "Validate" =>
        ( err = NilError
          <=> /\ args.DimensionsCacheSize > 0
              /\ args.MetricsFlushInterval > 0
              /\ args.AggregationTemporality \in {StrCUMULATIVE, StrDELTA} )

\* Validate has accepted Arguments whose other fields are populated, and
\* whose output is missing.
C1_Witness ==
    /\ op = "Validate"
    /\ err = NilError
    /\ args.AggregationTemporality = StrDELTA
    /\ Len(args.Dimensions) = 2
    /\ args.Namespace = "traces"
    /\ args.Histogram.Rejected
    /\ args.Output = 0

\* C2: whatever the Arguments held, SetToDefault followed immediately by
\* Validate returns no error.
C2_DefaultsValidate ==
    (op = "Validate" /\ prev = "SetToDefault") => err = NilError

\* Validate has run right after SetToDefault and accepted the defaults.
C2_Witness ==
    /\ op = "Validate"
    /\ prev = "SetToDefault"
    /\ err = NilError
    /\ args.DimensionsCacheSize = 1000

\* C3: for x in {CUMULATIVE, DELTA}, convertAggregationTemporality(x)
\* succeeds and FromOTelAggregationTemporality of its result is x.
C3_RoundTrip ==
    /\ (codec.fn = "convertAggregationTemporality"
          /\ codec.in \in {StrCUMULATIVE, StrDELTA})
       => codec.err = NilError
    /\ (codec.fn = "FromOTelAggregationTemporality"
          /\ codec.src \in {StrCUMULATIVE, StrDELTA})
       => codec.out = codec.src

\* DELTA has gone through both directions of the codec.
C3_Witness ==
    /\ codec.fn = "FromOTelAggregationTemporality"
    /\ codec.src = StrDELTA
    /\ codec.in = StrEngineDelta
    /\ codec.out = StrDELTA

\* C4: convertAggregationTemporality returns an error for every string other
\* than "CUMULATIVE" and "DELTA"; FromOTelAggregationTemporality never fails
\* and returns "" for every input other than the two engine strings.
C4_CodecAsymmetry ==
    /\ (codec.fn = "convertAggregationTemporality"
          /\ codec.in \notin {StrCUMULATIVE, StrDELTA})
       => codec.err # NilError
    /\ codec.fn = "FromOTelAggregationTemporality"
       => /\ codec.err = NilError
          /\ codec.in \notin {StrEngineDelta, StrEngineCumulative}
             => codec.out = <<>>

\* The reverse mapping was given a user-facing string and returned "".
C4_Witness ==
    /\ codec.fn = "FromOTelAggregationTemporality"
    /\ codec.in = StrCUMULATIVE
    /\ codec.out = <<>>
    /\ codec.err = NilError

\* One step of C5.
C5_Step ==
    /\ (op' = "Convert" /\ err' = NilError)
       => /\ cfg' # NilConfig
          /\ View(heap', cfg'.ExcludeDimensions)
               = View(heap, args.ExcludeDimensions)
          /\ View(heap', args'.ExcludeDimensions)
               = View(heap, args.ExcludeDimensions)
    /\ (op' \in {"ArgsOverwrite", "ArgsAppend"} /\ cfg # NilConfig)
       => /\ cfg' # NilConfig
          /\ View(heap', cfg'.ExcludeDimensions)
               = View(heap, cfg.ExcludeDimensions)
    /\ op' \in {"CfgOverwrite", "CfgAppend"}
       => View(heap', args'.ExcludeDimensions)
            = View(heap, args.ExcludeDimensions)

\* C5: a successful Convert returns a config whose exclude list equals the
\* Arguments' exclude_dimensions at the time of the call; afterwards no
\* overwrite of or append to the Arguments' list changes the config's list,
\* and no overwrite of or append to the config's list changes the
\* Arguments' list.
C5_ExcludeIndependentCopy == [][C5_Step]_vars

\* An element of the Arguments' list was overwritten after Convert, and the
\* config still shows the elements it was given.
C5_Witness ==
    /\ op = "ArgsOverwrite"
    /\ cfg # NilConfig
    /\ View(heap, cfg.ExcludeDimensions) = <<"a", "b">>
    /\ View(heap, args.ExcludeDimensions) = <<"b", "b">>

\* C6: when Convert succeeds, the config has as many dimensions as the
\* Arguments, and the i-th has the name and default of the i-th descriptor.
C6_DimensionsInOrder ==
    (op = "Convert" /\ err = NilError) =>
        /\ Len(cfg.Dimensions) = Len(args.Dimensions)
        /\ \A i \in 1..Len(args.Dimensions) :
            /\ cfg.Dimensions[i].Name = args.Dimensions[i].Name
            /\ cfg.Dimensions[i].Default = args.Dimensions[i].Default

\* Convert succeeded on the two dimensions of the specification's example.
C6_Witness ==
    /\ op = "Convert"
    /\ err = NilError
    /\ Len(cfg.Dimensions) = 2
    /\ cfg.Dimensions[1] = [Name |-> "http.method", Default |-> <<>>]
    /\ cfg.Dimensions[2] = [Name |-> "http.status_code", Default |-> <<"200">>]

\* C7: after SetToDefault the Arguments are the fixed baseline (1000,
\* CUMULATIVE, 15s, everything else zero) whatever they held before, and a
\* second SetToDefault changes nothing.
C7_SetToDefaultOverwrites ==
    op = "SetToDefault" =>
        /\ args = Baseline
        /\ SetToDefault(args) = args

\* SetToDefault ran on Arguments that had a namespace, dimensions and an
\* output (the config converted from them is still there).
C7_Witness ==
    /\ op = "SetToDefault"
    /\ prev = "Convert"
    /\ cfg # NilConfig
    /\ cfg.Namespace = "traces"
    /\ Len(cfg.Dimensions) = 2
    /\ cfg.DimensionsCacheSize = 1
    /\ args.Namespace = ""

\* C8: with a valid cache size and flush interval, any aggregation_temporality
\* other than "CUMULATIVE" and "DELTA" makes Validate fail with a message
\* that contains the offending string.
C8_TemporalityMessage ==
    ( /\ op = "Validate"
      /\ args.DimensionsCacheSize > 0
      /\ args.MetricsFlushInterval > 0
      /\ args.AggregationTemporality \notin {StrCUMULATIVE, StrDELTA} )
    => /\ err # NilError
       /\ Contains(err.msg, args.AggregationTemporality)

\* Defaulted Arguments given aggregation_temporality = "delta" were refused
\* with a message mentioning "delta".
C8_Witness ==
    /\ op = "Validate"
    /\ args = [Baseline EXCEPT !.AggregationTemporality = StrLowerDelta]
    /\ err # NilError
    /\ Contains(err.msg, StrLowerDelta)

\* C9: Convert returns either a config and no error or an error and no
\* config, validated or not: the histogram conversion's error unchanged when
\* that fails, else the codec's error unchanged when aggregation_temporality
\* is not CUMULATIVE or DELTA, and a config in every other case.
C9_ConvertAllOrNothing ==
    op = "Convert" =>
        LET histogram == HistogramConvert(args.Histogram)
            temporality ==
                convertAggregationTemporality(args.AggregationTemporality)
            known == args.AggregationTemporality \in {StrCUMULATIVE, StrDELTA}
        IN  /\ (err = NilError) # (cfg = NilConfig)
            /\ histogram.err # NilError
               => (err = histogram.err /\ cfg = NilConfig)
            /\ (histogram.err = NilError /\ ~known)
               => (err # NilError /\ err = temporality.err /\ cfg = NilConfig)
            /\ (histogram.err = NilError /\ known)
               => (err = NilError /\ cfg # NilConfig)

\* Convert, called without Validate on Arguments Validate would accept but
\* for the temporality, returned the codec's error and no config.
C9_Witness ==
    /\ op = "Convert"
    /\ prev = "init"
    /\ args.AggregationTemporality = StrLowerDelta
    /\ ~args.Histogram.Rejected
    /\ err # NilError
    /\ Contains(err.msg, StrLowerDelta)
    /\ cfg = NilConfig

\* C10, as claimed: every failure of Validate has a message that names the
\* offending field and states the offending value of that field.
C10_EveryMessageStatesValue ==
    (op = "Validate" /\ err # NilError) =>
        IF args.DimensionsCacheSize <= 0
        THEN /\ Contains(err.msg, StrCacheSize)
             /\ Contains(err.msg, FormatInt(args.DimensionsCacheSize))
        ELSE IF args.MetricsFlushInterval <= 0
        THEN /\ Contains(err.msg, StrFlushInterval)
             /\ Contains(err.msg, FormatInt(args.MetricsFlushInterval))
        ELSE /\ Contains(err.msg, StrAggregationTemporality)
             /\ Contains(err.msg, args.AggregationTemporality)

\* C10, amended: every failure of Validate has a message that names the
\* offending field; the cache size and temporality messages also state the
\* offending value, the flush interval message is one fixed text that does
\* not.
C10_MessagesNameField ==
    (op = "Validate" /\ err # NilError) =>
        IF args.DimensionsCacheSize <= 0
        THEN /\ Contains(err.msg, StrCacheSize)
             /\ Contains(err.msg, FormatInt(args.DimensionsCacheSize))
        ELSE IF args.MetricsFlushInterval <= 0
        THEN /\ Contains(err.msg, StrFlushInterval)
             /\ err.msg = StrFlushMessage
        ELSE /\ Contains(err.msg, StrAggregationTemporality)
             /\ Contains(err.msg, args.AggregationTemporality)

\* Validate refused a negative flush interval with a message in which the
\* value does not occur.
C10_Witness ==
    /\ op = "Validate"
    /\ err # NilError
    /\ args.DimensionsCacheSize > 0
    /\ args.MetricsFlushInterval < 0
    /\ ~Contains(err.msg, FormatInt(args.MetricsFlushInterval))

====
